---- MODULE Spec2Model ----
(***************************************************************************)
(* Model of the Laum Project Django application: the public identifier     *)
(* generators of Group and Page (web/models.py), the post-save hook that   *)
(* derives a Report's reference identifier (web/models.py), the report     *)
(* moderation flow of ReportAdmin (web/admin.py) and the language switch   *)
(* of the URL configuration (laumproject/urls.py).                        *)
(*                                                                         *)
(* Strings that the code builds by formatting are tuples of their parts:   *)
(* f'{prefix}_{postfix}' is <<prefix, "_", postfix>>.  None is <<>>.       *)
(* A request is run by a worker thread; pc[t] is the statement the thread  *)
(* is about to run and loc[t] holds the locals of its request.             *)
(***************************************************************************)
EXTENDS Naturals, Sequences, FiniteSets

VARIABLES
    groups,           \* table web_group: sequence of gid, index = primary key
    pages,            \* table web_page: sequence of [pid, group, language]
    reports,          \* table web_report: sequence of report rows, index = pk
    sent,             \* notifications handed to the mail backend, in order
    readonly_fields,  \* ReportAdmin.readonly_fields: attribute of the one shared admin instance
    pc,               \* per thread: next statement
    loc,              \* per thread: locals of the running request
    gid_log,          \* history: one entry per generate_gid call, [id, persisted]
    pid_log,          \* history: one entry per generate_pid call, [id, persisted]
    derived,          \* history: per report pk, how often generate_rid computed a rid
    edits,            \* history: number of ReportAdmin change requests started
    call              \* a call of switch_lang_code: its arguments and its outcome

vars == <<groups, pages, reports, sent, readonly_fields, pc, loc, gid_log, pid_log, derived, edits, call>>

(***************************************************************************)
(* Bounds                                                                  *)
(***************************************************************************)
NumSuffix == 2        \* size of the suffix space id_generator draws from
MaxCalls == 2         \* generate_gid / generate_pid calls per kind in a run
MaxReports == 2       \* reports created in a run
MaxEdits == 2         \* admin change requests in a run
MaxPathLen == 4       \* characters of a path handed to switch_lang_code

Threads == {1, 2}
SeqThreads == {1}

None == <<>>
Suffixes == 1 .. NumSuffix
Langs == {"fa", "en"}

GID_PREFIX == "G"
PID_PREFIX == "P"
RID_PREFIX == "R"

NoCall == [path_ |-> <<>>, language |-> <<>>, state |-> "none",
           outcome |-> "", value |-> <<>>]

(***************************************************************************)
(* Locals of a request                                                     *)
(***************************************************************************)
NoReport == [page |-> None, rid |-> None, body |-> "", reporter |-> "",
             description |-> "", status |-> ""]

Locals0 == [new_id |-> None, collided |-> FALSE, log_ix |-> 0,
            group |-> None, language |-> "fa", result |-> "",
            target |-> 0, obj |-> NoReport, form_fields |-> {},
            cleaned_data |-> [f \in {} |-> ""], created |-> FALSE,
            is_first_change |-> FALSE, caller |-> "", loaded_status |-> ""]

Goto(t, label) == pc' = [pc EXCEPT ![t] = label]

(***************************************************************************)
(* Identifier generator (web/models.py)                                    *)
(***************************************************************************)
\* f'{prefix}_{postfix_string}'
format_id(prefix, postfix_string) == <<prefix, "_", postfix_string>>

\* GroupManager.is_gid_exist: does a persisted Group hold this gid
is_gid_exist(gid) == \E i \in DOMAIN groups : groups[i] = gid

\* PageManager.is_pid_exist: does a persisted Page hold this pid
is_pid_exist(pid) == \E i \in DOMAIN pages : pages[i].pid = pid

\* a gid column without its unique constraint
gid_unique_off(gid) == TRUE

\* unique=True on Group.gid: the INSERT is refused when the value is held
gid_unique(gid) == ~ \E i \in DOMAIN groups : groups[i] = gid

\* unique=True on Page.pid
pid_unique(pid) == ~ \E i \in DOMAIN pages : pages[i].pid = pid

\* a Page table without unique_together
group_language_unique_off(group, language, pk) == TRUE

\* unique_together = ('group', 'language'); rows with a NULL group never
\* conflict.  pk is the row being written (0 for an INSERT).
group_language_unique(group, language, pk) ==
    \/ group = None
    \/ ~ \E i \in DOMAIN pages :
            i # pk /\ pages[i].group = group /\ pages[i].language = language

\* Group(): a new instance evaluates the default of gid, generate_gid
NewGroup(t) ==
    /\ pc[t] = "idle"
    /\ Len(gid_log) < MaxCalls
    /\ gid_log' = Append(gid_log, [id |-> None, persisted |-> FALSE])
    /\ loc' = [loc EXCEPT ![t] = [Locals0 EXCEPT !.log_ix = Len(gid_log) + 1,
                                                 !.caller = "Group"]]
    /\ Goto(t, "generate_gid")
    /\ UNCHANGED <<groups, pages, reports, sent, readonly_fields, pid_log, derived, edits, call>>

\* a bounded loop that gives up checking after one collision
generate_gid_capped(t, postfix_string) ==
    /\ pc[t] = "generate_gid"
    /\ LET new_gid == format_id(GID_PREFIX, postfix_string) IN
       IF is_gid_exist(new_gid) /\ ~ loc[t].collided
       THEN /\ loc' = [loc EXCEPT ![t].new_id = None, ![t].collided = TRUE]
            /\ UNCHANGED <<pc, gid_log>>
       ELSE /\ loc' = [loc EXCEPT ![t].new_id = new_gid]
            /\ gid_log' = [gid_log EXCEPT ![loc[t].log_ix].id = new_gid]
            /\ Goto(t, "insert_group")
    /\ UNCHANGED <<groups, pages, reports, sent, readonly_fields, pid_log, derived, edits, call>>

\* one iteration of generate_gid's while loop, id_generator() having drawn
\* postfix_string: format, check, then retry (new_gid = None) or return
generate_gid_draw(t, postfix_string) ==
    /\ pc[t] = "generate_gid"
    /\ LET new_gid == format_id(GID_PREFIX, postfix_string) IN
       IF is_gid_exist(new_gid)
       THEN /\ loc' = [loc EXCEPT ![t].new_id = None, ![t].collided = TRUE]
            /\ UNCHANGED <<pc, gid_log>>
       ELSE /\ loc' = [loc EXCEPT ![t].new_id = new_gid]
            /\ gid_log' = [gid_log EXCEPT ![loc[t].log_ix].id = new_gid]
            /\ Goto(t, "insert_group")
    /\ UNCHANGED <<groups, pages, reports, sent, readonly_fields, pid_log, derived, edits, call>>

\* id_generator(): any suffix of the space may be drawn
generate_gid(t) == \E postfix_string \in Suffixes : generate_gid_draw(t, postfix_string)

\* what a finished request leaves behind: what it was and how it ended
Finished(t, result) ==
    loc' = [loc EXCEPT ![t] = [Locals0 EXCEPT !.result = result,
                                              !.caller = loc[t].caller]]

\* Group.save(): INSERT under the unique constraint on gid
InsertGroup(t) ==
    /\ pc[t] = "insert_group"
    /\ IF gid_unique(loc[t].new_id)
       THEN /\ groups' = Append(groups, loc[t].new_id)
            /\ gid_log' = [gid_log EXCEPT ![loc[t].log_ix].persisted = TRUE]
            /\ Finished(t, "ok")
       ELSE /\ Finished(t, "IntegrityError")
            /\ UNCHANGED <<groups, gid_log>>
    /\ Goto(t, "idle")
    /\ UNCHANGED <<pages, reports, sent, readonly_fields, pid_log, derived, edits, call>>

\* Page(group=..., language=...): a new instance evaluates the default of pid
NewPage(t, group, language) ==
    /\ pc[t] = "idle"
    /\ Len(pid_log) < MaxCalls
    /\ pid_log' = Append(pid_log, [id |-> None, persisted |-> FALSE])
    /\ loc' = [loc EXCEPT ![t] = [Locals0 EXCEPT !.log_ix = Len(pid_log) + 1,
                                                 !.caller = "Page",
                                                 !.group = group,
                                                 !.language = language]]
    /\ Goto(t, "generate_pid")
    /\ UNCHANGED <<groups, pages, reports, sent, readonly_fields, gid_log, derived, edits, call>>

\* a loop that returns its first candidate unchecked
generate_pid_unchecked(t, postfix_string) ==
    /\ pc[t] = "generate_pid"
    /\ LET new_pid == format_id(PID_PREFIX, postfix_string) IN
       /\ loc' = [loc EXCEPT ![t].new_id = new_pid]
       /\ pid_log' = [pid_log EXCEPT ![loc[t].log_ix].id = new_pid]
       /\ Goto(t, "insert_page")
    /\ UNCHANGED <<groups, pages, reports, sent, readonly_fields, gid_log, derived, edits, call>>

\* one iteration of generate_pid's while loop, id_generator() having drawn
\* postfix_string
generate_pid_draw(t, postfix_string) ==
    /\ pc[t] = "generate_pid"
    /\ LET new_pid == format_id(PID_PREFIX, postfix_string) IN
       IF is_pid_exist(new_pid)
       THEN /\ loc' = [loc EXCEPT ![t].new_id = None, ![t].collided = TRUE]
            /\ UNCHANGED <<pc, pid_log>>
       ELSE /\ loc' = [loc EXCEPT ![t].new_id = new_pid]
            /\ pid_log' = [pid_log EXCEPT ![loc[t].log_ix].id = new_pid]
            /\ Goto(t, "insert_page")
    /\ UNCHANGED <<groups, pages, reports, sent, readonly_fields, gid_log, derived, edits, call>>

generate_pid(t) == \E postfix_string \in Suffixes : generate_pid_draw(t, postfix_string)

\* Page.save(): INSERT under unique pid and unique_together (group, language)
InsertPage(t) ==
    /\ pc[t] = "insert_page"
    /\ IF /\ pid_unique(loc[t].new_id)
          /\ group_language_unique(loc[t].group, loc[t].language, 0)
       THEN /\ pages' = Append(pages, [pid |-> loc[t].new_id,
                                       group |-> loc[t].group,
                                       language |-> loc[t].language])
            /\ pid_log' = [pid_log EXCEPT ![loc[t].log_ix].persisted = TRUE]
            /\ Finished(t, "ok")
       ELSE /\ Finished(t, "IntegrityError")
            /\ UNCHANGED <<pages, pid_log>>
    /\ Goto(t, "idle")
    /\ UNCHANGED <<groups, reports, sent, readonly_fields, gid_log, derived, edits, call>>

\* PageAdmin change request for Page pk with the group field edited
ChangePage(t, pk, group) ==
    /\ pc[t] = "idle"
    /\ pk \in DOMAIN pages
    /\ pages[pk].group # group
    /\ loc' = [loc EXCEPT ![t] = [Locals0 EXCEPT !.target = pk,
                                                 !.caller = "PageAdmin",
                                                 !.group = group,
                                                 !.language = pages[pk].language]]
    /\ Goto(t, "save_page")
    /\ UNCHANGED <<groups, pages, reports, sent, readonly_fields, gid_log, pid_log, derived, edits, call>>

\* PageAdmin.save_model: UPDATE under unique_together (text fields not modelled)
PageAdmin_save_model(t) ==
    /\ pc[t] = "save_page"
    /\ IF group_language_unique(loc[t].group, loc[t].language, loc[t].target)
       THEN /\ pages' = [pages EXCEPT ![loc[t].target].group = loc[t].group]
            /\ Finished(t, "ok")
       ELSE /\ Finished(t, "IntegrityError")
            /\ UNCHANGED pages
    /\ Goto(t, "idle")
    /\ UNCHANGED <<groups, reports, sent, readonly_fields, gid_log, pid_log, derived, edits, call>>

GroupChoices == {None} \cup {groups[i] : i \in DOMAIN groups}

\* creation of Groups and Pages
CreateStep(t) ==
    \/ NewGroup(t)
    \/ generate_gid(t)
    \/ InsertGroup(t)
    \/ \E g \in GroupChoices, l \in Langs : NewPage(t, g, l)
    \/ generate_pid(t)
    \/ InsertPage(t)

\* creation of ungrouped Pages of one language, and of Groups
CreateStepUngrouped(t) ==
    \/ NewGroup(t)
    \/ generate_gid(t)
    \/ InsertGroup(t)
    \/ NewPage(t, None, "fa")
    \/ generate_pid(t)
    \/ InsertPage(t)

IdStep(t) ==
    \/ CreateStep(t)
    \/ \E pk \in DOMAIN pages, g \in GroupChoices : ChangePage(t, pk, g)
    \/ PageAdmin_save_model(t)

InitIds ==
    /\ groups = <<>>
    /\ pages = <<>>
    /\ reports = <<>>
    /\ sent = <<>>
    /\ readonly_fields = {}
    /\ pc = [t \in Threads |-> "idle"]
    /\ loc = [t \in Threads |-> Locals0]
    /\ gid_log = <<>>
    /\ pid_log = <<>>
    /\ derived = <<>>
    /\ edits = 0
    /\ call = NoCall

\* a populated store: one Group and one Page were created earlier
InitGen ==
    /\ groups = << format_id(GID_PREFIX, 1) >>
    /\ pages = << [pid |-> format_id(PID_PREFIX, 1), group |-> None, language |-> "fa"] >>
    /\ reports = <<>>
    /\ sent = <<>>
    /\ readonly_fields = {}
    /\ pc = [t \in Threads |-> "idle"]
    /\ loc = [t \in Threads |-> Locals0]
    /\ gid_log = <<>>
    /\ pid_log = <<>>
    /\ derived = <<>>
    /\ edits = 0
    /\ call = NoCall

NextIdsSeq == \E t \in SeqThreads : IdStep(t)
NextIdsConc == \E t \in Threads : CreateStepUngrouped(t)
NextGen == \E t \in SeqThreads : CreateStep(t)

\* one request at a time
SpecIds == InitIds /\ [][NextIdsSeq]_vars

\* the creations of two workers interleave statement by statement
SpecIdsConc == InitIds /\ [][NextIdsConc]_vars

\* one creation at a time, every suffix of the space drawn again and again
SpecGen ==
    /\ InitGen
    /\ [][NextGen]_vars
    /\ \A s \in Suffixes : WF_vars(generate_gid_draw(1, s))
    /\ \A s \in Suffixes : WF_vars(generate_pid_draw(1, s))

(***************************************************************************)
(* Properties of the identifier generator and the uniqueness constraints   *)
(***************************************************************************)
IsId(id, prefix) ==
    /\ Len(id) = 3
    /\ id[1] = prefix
    /\ id[2] = "_"
    /\ id[3] \in Suffixes

Returned(log) == {i \in DOMAIN log : log[i].id # None}

\* every call but the last had its identifier persisted before the next call
EachPersisted(log) == \A i \in DOMAIN log : i < Len(log) => log[i].persisted

NoTwoReturnedEqual(log) ==
    \A i, j \in Returned(log) : i # j => log[i].id # log[j].id

\* C3: a value returned by generate_gid (generate_pid) is <GID_PREFIX>_<suffix>
\* (<PID_PREFIX>_<suffix>) and is not held by a persisted Group (Page) when it
\* is returned; when every returned identifier is persisted before the next
\* call, no two calls return the same value.
C3_GeneratedIdFresh ==
    /\ \A t \in Threads :
          /\ pc[t] = "insert_group" =>
                IsId(loc[t].new_id, GID_PREFIX) /\ ~ is_gid_exist(loc[t].new_id)
          /\ pc[t] = "insert_page" =>
                IsId(loc[t].new_id, PID_PREFIX) /\ ~ is_pid_exist(loc[t].new_id)
    /\ \A i \in Returned(gid_log) : IsId(gid_log[i].id, GID_PREFIX)
    /\ \A i \in Returned(pid_log) : IsId(pid_log[i].id, PID_PREFIX)
    /\ EachPersisted(gid_log) => NoTwoReturnedEqual(gid_log)
    /\ EachPersisted(pid_log) => NoTwoReturnedEqual(pid_log)

\* a generate_gid call returns after a collision with the Group of the call
\* before it, two Pages of earlier generate_pid calls being persisted
C3_Witness ==
    /\ \E t \in Threads : pc[t] = "insert_group" /\ loc[t].collided
    /\ Len(groups) = 1
    /\ Len(gid_log) = 2 /\ gid_log[1].persisted
    /\ Len(pid_log) = 2 /\ pid_log[1].persisted /\ pid_log[2].persisted

PagePerGroupLanguage ==
    \A i, j \in DOMAIN pages :
        (i # j /\ pages[i].group # None /\ pages[i].group = pages[j].group)
            => pages[i].language # pages[j].language

DuplicateInsert(t) ==
    /\ pc[t] = "insert_page"
    /\ loc[t].group # None
    /\ \E i \in DOMAIN pages :
          pages[i].group = loc[t].group /\ pages[i].language = loc[t].language

\* C5: the store never holds two Pages of the same Group and language, and an
\* INSERT of a Page whose (group, language) an existing Page holds ends in a
\* uniqueness violation with the stored Pages unchanged.
C5_PageUniquePerGroupLanguage ==
    /\ []PagePerGroupLanguage
    /\ [][\A t \in Threads :
            (DuplicateInsert(t) /\ pc'[t] = "idle")
                => (pages' = pages /\ loc'[t].result = "IntegrityError")]_vars

\* the INSERT of a Page was refused, with its pid free: the (group, language)
\* pair was taken
C5_Witness ==
    \E t \in Threads :
        /\ pc[t] = "idle"
        /\ loc[t].caller = "Page"
        /\ loc[t].result = "IntegrityError"
        /\ \A i, j \in DOMAIN pages : i # j => pages[i].pid # pages[j].pid
        /\ Len(pages) >= 1

\* C8: under interleaved creations no two persisted Groups share a gid and no
\* two persisted Pages share a pid.
C8_NoDuplicateIdPersisted ==
    /\ \A i, j \in DOMAIN groups : i # j => groups[i] # groups[j]
    /\ \A i, j \in DOMAIN pages : i # j => pages[i].pid # pages[j].pid

\* both workers were handed the same gid: one INSERT went through, the other
\* was refused
C8_Witness ==
    /\ pc[1] = "idle" /\ pc[2] = "idle"
    /\ loc[1].caller = "Group" /\ loc[2].caller = "Group"
    /\ loc[1].result = "ok"
    /\ loc[2].result = "IntegrityError"
    /\ Len(groups) = 1
    /\ Len(gid_log) = 2 /\ gid_log[1].id = gid_log[2].id

AllGidHeld == \A s \in Suffixes : is_gid_exist(format_id(GID_PREFIX, s))
AllPidHeld == \A s \in Suffixes : is_pid_exist(format_id(PID_PREFIX, s))

\* C9: with fair draws a generate_gid (generate_pid) call returns when some
\* suffix is free, and no step of a call returns while every suffix is held.
C9_RetryUntilFree ==
    /\ \A t \in SeqThreads :
          (pc[t] = "generate_gid" /\ ~ AllGidHeld) ~> (pc[t] # "generate_gid")
    /\ \A t \in SeqThreads :
          (pc[t] = "generate_pid" /\ ~ AllPidHeld) ~> (pc[t] # "generate_pid")
    /\ [][\A t \in SeqThreads :
            /\ (pc[t] = "generate_gid" /\ AllGidHeld) => pc'[t] = "generate_gid"
            /\ (pc[t] = "generate_pid" /\ AllPidHeld) => pc'[t] = "generate_pid"]_vars

\* a call has retried after a collision and every suffix is held
C9_Witness ==
    \E t \in SeqThreads :
        /\ pc[t] = "generate_gid"
        /\ loc[t].collided
        /\ AllGidHeld

(***************************************************************************)
(* Reports: the post-save hook (web/models.py) and ReportAdmin              *)
(* (web/admin.py)                                                           *)
(***************************************************************************)
STATUS_IS_PENDING == "pending"
STATUS_IS_ACCEPTED == "accepted"
STATUS_IS_DENIED == "denied"
STATUS_CHOICES == {STATUS_IS_PENDING, STATUS_IS_ACCEPTED, STATUS_IS_DENIED}

Reporters == {"r1@mail", "r2@mail"}

\* texts are sequences of characters
Empty == <<>>
Placeholder == <<"-">>
SubmittedBody == <<"b", " ", " ", "b">>
DescriptionInputs == {Empty, <<"a", " ", " ", "a">>}

\* PersianEditors.run with the 'space' pass active: runs of spaces collapse
RECURSIVE run(_)
run(text) ==
    IF Len(text) < 2 THEN text
    ELSE IF text[1] = " " /\ text[2] = " " THEN run(Tail(text))
    ELSE <<text[1]>> \o run(Tail(text))

\* swap_prefix(string, prefix): the token before the first "_" becomes prefix
swap_prefix(string, prefix) == <<prefix>> \o Tail(string)

\* f'{instance.page.pid}_{instance.pk}'
pid_pk(pid, pk) == pid \o <<"_", pk>>

\* generate_rid's value: swap_prefix(f'{instance.page.pid}_{instance.pk}', RID_PREFIX)
rid_of(pid, pk) == swap_prefix(pid_pk(pid, pk), RID_PREFIX)

\* Report.objects.create(page=..., body=..., reporter=...): INSERT with the
\* defaults rid = NULL, description = '', status = pending; post_save follows
CreateReport(t, page, reporter) ==
    /\ pc[t] = "idle"
    /\ Len(reports) < MaxReports
    /\ LET row == [page |-> page, rid |-> None, body |-> SubmittedBody,
                   reporter |-> reporter, description |-> Empty,
                   status |-> STATUS_IS_PENDING] IN
       /\ reports' = Append(reports, row)
       /\ loc' = [loc EXCEPT ![t] = [Locals0 EXCEPT !.target = Len(reports) + 1,
                                                    !.obj = row,
                                                    !.created = TRUE,
                                                    !.caller = "create"]]
    /\ derived' = Append(derived, 0)
    /\ Goto(t, "post_save")
    /\ UNCHANGED <<groups, pages, sent, readonly_fields, gid_log, pid_log, edits, call>>

\* a hook that derives on every save
generate_rid_always(t) ==
    /\ pc[t] = "post_save"
    /\ derived[loc[t].target] < 2
    /\ loc' = [loc EXCEPT ![t].obj.rid = rid_of(loc[t].obj.page, loc[t].target)]
    /\ derived' = [derived EXCEPT ![loc[t].target] = @ + 1]
    /\ Goto(t, "rid_save")
    /\ UNCHANGED <<groups, pages, reports, sent, readonly_fields, gid_log, pid_log, edits, call>>

\* the post_save receiver generate_rid(sender, instance, created); when it
\* returns, the save that raised the signal returns to its caller
generate_rid(t) ==
    /\ pc[t] = "post_save"
    /\ IF loc[t].created
       THEN /\ loc' = [loc EXCEPT ![t].obj.rid = rid_of(loc[t].obj.page, loc[t].target)]
            /\ derived' = [derived EXCEPT ![loc[t].target] = @ + 1]
            /\ Goto(t, "rid_save")
       ELSE /\ IF loc[t].caller = "admin" /\ loc[t].is_first_change
               THEN /\ Goto(t, "send")
                    /\ UNCHANGED loc
               ELSE /\ Goto(t, "idle")
                    /\ Finished(t, "ok")
            /\ UNCHANGED derived
    /\ UNCHANGED <<groups, pages, reports, sent, readonly_fields, gid_log, pid_log, edits, call>>

\* instance.save() inside the receiver: UPDATE of the row, then post_save
\* with created = False
rid_save(t) ==
    /\ pc[t] = "rid_save"
    /\ reports' = [reports EXCEPT ![loc[t].target] = loc[t].obj]
    /\ loc' = [loc EXCEPT ![t].created = FALSE]
    /\ Goto(t, "post_save")
    /\ UNCHANGED <<groups, pages, sent, readonly_fields, gid_log, pid_log, derived, edits, call>>

\* fields of ReportAdmin.fieldsets
FieldsetFields == {"view_page", "send_email", "rid", "body", "description",
                   "status", "jalali_updated_on", "jalali_created_on"}

BaseReadonly == {"view_page", "body", "rid", "send_email",
                 "jalali_updated_on", "jalali_created_on"}

\* a guard that never closes the fields
readonly_extension_none(obj) == {}

\* get_readonly_fields: what is appended for obj
readonly_extension(obj) ==
    IF obj.status # STATUS_IS_PENDING THEN {"description", "status"} ELSE {}

\* a decision that ignores the status of obj
is_first_change_any_status(fields, obj) == "status" \notin fields

\* save_model: is this save the first status-changing edit
is_first_change(fields, obj) ==
    "status" \notin fields /\ obj.status # STATUS_IS_PENDING

\* a save that keeps an empty description
description_for_keep(first, cleaned_data, obj) == obj.description

\* save_model: the placeholder for an empty description of a first change
description_for(first, cleaned_data, obj) ==
    IF first /\ cleaned_data["description"] = Empty
    THEN Placeholder ELSE obj.description

\* change view of Report pk: get_object reads the row
ReportAdmin_get_object(t, pk) ==
    /\ pc[t] = "idle"
    /\ edits < MaxEdits
    /\ pk \in DOMAIN reports
    /\ edits' = edits + 1
    /\ loc' = [loc EXCEPT ![t] = [Locals0 EXCEPT !.target = pk,
                                                 !.obj = reports[pk],
                                                 !.loaded_status = reports[pk].status,
                                                 !.caller = "admin"]]
    /\ Goto(t, "readonly_assign")
    /\ UNCHANGED <<groups, pages, reports, sent, readonly_fields, gid_log, pid_log, derived, call>>

\* get_readonly_fields, the assignment of the base list to self.readonly_fields
get_readonly_fields_assign(t) ==
    /\ pc[t] = "readonly_assign"
    /\ readonly_fields' = BaseReadonly
    /\ Goto(t, "readonly_extend")
    /\ UNCHANGED <<groups, pages, reports, sent, loc, gid_log, pid_log, derived, edits, call>>

\* get_readonly_fields, self.readonly_fields.extend([...]) for a decided obj
get_readonly_fields_extend(t) ==
    /\ pc[t] = "readonly_extend"
    /\ readonly_fields' = readonly_fields \cup readonly_extension(loc[t].obj)
    /\ Goto(t, "get_form")
    /\ UNCHANGED <<groups, pages, reports, sent, loc, gid_log, pid_log, derived, edits, call>>

\* get_readonly_fields returns self.readonly_fields; get_form excludes these
\* fields from the form; the posted form is validated and save_form writes
\* its cleaned data to obj
ReportAdmin_get_form(t, status, description) ==
    /\ pc[t] = "get_form"
    /\ LET form_fields == FieldsetFields \ readonly_fields
           posted == [f \in {"description", "status"} |->
                         IF f = "status" THEN status ELSE description]
           cleaned_data == [f \in form_fields |-> posted[f]] IN
       loc' = [loc EXCEPT
                 ![t].form_fields = form_fields,
                 ![t].cleaned_data = cleaned_data,
                 ![t].obj.status = IF "status" \in form_fields THEN status ELSE @,
                 ![t].obj.description =
                     IF "description" \in form_fields THEN description ELSE @]
    /\ Goto(t, "save_model")
    /\ UNCHANGED <<groups, pages, reports, sent, readonly_fields, gid_log, pid_log,
                   derived, edits, call>>

\* ReportAdmin.save_model up to the super() call: the decision, the
\* placeholder, the text editors.  form.cleaned_data['description'] raises
\* KeyError when the form holds no description field.
ReportAdmin_save_model(t) ==
    /\ pc[t] = "save_model"
    /\ LET first == is_first_change(readonly_fields, loc[t].obj) IN
       IF first /\ "description" \notin DOMAIN loc[t].cleaned_data
       THEN /\ Finished(t, "KeyError")
            /\ Goto(t, "idle")
       ELSE /\ loc' = [loc EXCEPT
                         ![t].is_first_change = first,
                         ![t].obj.description =
                             run(description_for(first, loc[t].cleaned_data, loc[t].obj)),
                         ![t].obj.body = run(loc[t].obj.body)]
            /\ Goto(t, "super_save_model")
    /\ UNCHANGED <<groups, pages, reports, sent, readonly_fields, gid_log, pid_log,
                   derived, edits, call>>

\* super().save_model: obj.save(), an UPDATE of every column, then post_save
super_save_model(t) ==
    /\ pc[t] = "super_save_model"
    /\ reports' = [reports EXCEPT ![loc[t].target] = loc[t].obj]
    /\ Goto(t, "post_save")
    /\ UNCHANGED <<groups, pages, sent, readonly_fields, loc, gid_log, pid_log,
                   derived, edits, call>>

\* message.send([obj.reporter]) with context {'report': obj}
send(t) ==
    /\ pc[t] = "send"
    /\ sent' = Append(sent, [to |-> loc[t].obj.reporter,
                             report |-> loc[t].target,
                             status |-> loc[t].obj.status,
                             description |-> loc[t].obj.description,
                             observed |-> loc[t].loaded_status])
    /\ Finished(t, "ok")
    /\ Goto(t, "idle")
    /\ UNCHANGED <<groups, pages, reports, readonly_fields, gid_log, pid_log,
                   derived, edits, call>>

ChangeStep(t) ==
    \/ \E pk \in DOMAIN reports : ReportAdmin_get_object(t, pk)
    \/ get_readonly_fields_assign(t)
    \/ get_readonly_fields_extend(t)
    \/ \E st \in STATUS_CHOICES, d \in DescriptionInputs : ReportAdmin_get_form(t, st, d)
    \/ ReportAdmin_save_model(t)
    \/ super_save_model(t)
    \/ generate_rid(t)
    \/ send(t)

ReportStep(t) ==
    \/ \E i \in DOMAIN pages, r \in Reporters : CreateReport(t, pages[i].pid, r)
    \/ rid_save(t)
    \/ ChangeStep(t)

TwoPages == << [pid |-> format_id(PID_PREFIX, 1), group |-> None, language |-> "fa"],
               [pid |-> format_id(PID_PREFIX, 2), group |-> None, language |-> "fa"] >>

\* two Pages exist, no Report yet
InitReports ==
    /\ groups = <<>>
    /\ pages = TwoPages
    /\ reports = <<>>
    /\ sent = <<>>
    /\ readonly_fields = {}
    /\ pc = [t \in Threads |-> "idle"]
    /\ loc = [t \in Threads |-> Locals0]
    /\ gid_log = <<>>
    /\ pid_log = <<>>
    /\ derived = <<>>
    /\ edits = 0
    /\ call = NoCall

PendingReport(pk, reporter) ==
    [page |-> format_id(PID_PREFIX, pk), rid |-> rid_of(format_id(PID_PREFIX, pk), pk),
     body |-> SubmittedBody, reporter |-> reporter, description |-> Empty,
     status |-> STATUS_IS_PENDING]

AcceptedReport(pk, reporter) ==
    [PendingReport(pk, reporter) EXCEPT !.status = STATUS_IS_ACCEPTED,
                                        !.description = Placeholder,
                                        !.body = run(SubmittedBody)]

NotificationOf(pk, row) ==
    [to |-> row.reporter, report |-> pk, status |-> row.status,
     description |-> row.description, observed |-> STATUS_IS_PENDING]

\* two Pages exist, each with one Report: Report 1 was accepted and its
\* reporter notified, Report 2 is pending
InitModeration ==
    /\ groups = <<>>
    /\ pages = TwoPages
    /\ reports = << AcceptedReport(1, "r1@mail"), PendingReport(2, "r2@mail") >>
    /\ sent = << NotificationOf(1, AcceptedReport(1, "r1@mail")) >>
    /\ readonly_fields = {}
    /\ pc = [t \in Threads |-> "idle"]
    /\ loc = [t \in Threads |-> Locals0]
    /\ gid_log = <<>>
    /\ pid_log = <<>>
    /\ derived = <<1, 1>>
    /\ edits = 0
    /\ call = NoCall

\* worker t serves the change requests of Report t only
ChangeStepOwn(t) ==
    \/ ReportAdmin_get_object(t, t)
    \/ get_readonly_fields_assign(t)
    \/ get_readonly_fields_extend(t)
    \/ \E st \in STATUS_CHOICES, d \in DescriptionInputs : ReportAdmin_get_form(t, st, d)
    \/ ReportAdmin_save_model(t)
    \/ super_save_model(t)
    \/ generate_rid(t)
    \/ send(t)

NextReportsSeq == \E t \in SeqThreads : ReportStep(t)
NextModeration == \E t \in Threads : ChangeStep(t)
NextModerationApart == \E t \in Threads : ChangeStepOwn(t)

\* reports are submitted and moderated, one request at a time
SpecReports == InitReports /\ [][NextReportsSeq]_vars

\* change requests of two workers interleave statement by statement
SpecModeration == InitModeration /\ [][NextModeration]_vars

\* requests for different reports interleave; each report is edited by one
\* worker, one request after the other
SpecModerationApart == InitModeration /\ [][NextModerationApart]_vars

(***************************************************************************)
(* Properties of the report life cycle                                     *)
(***************************************************************************)
NotificationsIn(log, pk) == Cardinality({i \in DOMAIN log : log[i].report = pk})

Decided(row) == row.status # STATUS_IS_PENDING

\* a first change of Report pk is persisted and its notification not yet sent
FirstChangeInFlight(pk) ==
    \E t \in Threads :
        /\ loc[t].target = pk
        /\ loc[t].caller = "admin"
        /\ loc[t].is_first_change
        /\ pc[t] \in {"post_save", "send"}

\* C1: once the persisted status of a Report is accepted or denied no later
\* request changes it, and at most one notification is ever sent for a Report.
C1_StatusDecidedOnce ==
    /\ [](\A pk \in DOMAIN reports : NotificationsIn(sent, pk) <= 1)
    /\ [][\A pk \in DOMAIN reports :
            Decided(reports[pk]) =>
                /\ reports'[pk].status = reports[pk].status
                /\ NotificationsIn(sent', pk) <= 1]_vars

\* a later change request for a decided Report, already notified, is about to
\* be saved
C1_Witness ==
    \E t \in Threads :
        /\ pc[t] = "super_save_model"
        /\ loc[t].loaded_status = STATUS_IS_ACCEPTED
        /\ NotificationsIn(sent, loc[t].target) = 1

\* C2: the save that takes a pending Report to accepted or denied stores a
\* non-empty description, persists the row before it sends, and sends exactly
\* one notification, to the reporter; while the status stays pending nothing
\* is sent.
C2_FirstChangeNotifiesOnce ==
    /\ \A t \in Threads :
          pc[t] = "send" =>
              /\ reports[loc[t].target] = loc[t].obj
              /\ loc[t].loaded_status = STATUS_IS_PENDING
              /\ Decided(loc[t].obj)
              /\ loc[t].obj.description # Empty
    /\ \A pk \in DOMAIN reports :
          IF Decided(reports[pk])
          THEN /\ reports[pk].description # Empty
               /\ NotificationsIn(sent, pk) = IF FirstChangeInFlight(pk) THEN 0 ELSE 1
          ELSE NotificationsIn(sent, pk) = 0
    /\ \A i \in DOMAIN sent :
          /\ sent[i].to = reports[sent[i].report].reporter
          /\ sent[i].description = reports[sent[i].report].description
          /\ sent[i].status = reports[sent[i].report].status

\* a Report submitted with an empty description was decided with the
\* description left empty: the placeholder is stored and one notification sent
C2_Witness ==
    \E pk \in DOMAIN reports :
        /\ \A t \in Threads : pc[t] = "idle"
        /\ Decided(reports[pk])
        /\ reports[pk].description = Placeholder
        /\ NotificationsIn(sent, pk) = 1
        /\ \E i \in DOMAIN sent : sent[i].report = pk /\ sent[i].description = Placeholder

\* C4: a stored Report has no rid only while its first save is under way; the
\* rid is <RID_PREFIX>_<suffix of the Page's pid>_<pk>, it is derived once and
\* no later save changes it.
C4_RidDerivedOnce ==
    /\ [](\A pk \in DOMAIN reports :
            /\ derived[pk] <= 1
            /\ reports[pk].rid = None =>
                  \E t \in Threads :
                      /\ loc[t].target = pk
                      /\ loc[t].created
                      /\ pc[t] \in {"post_save", "rid_save"}
            /\ reports[pk].rid # None =>
                  /\ derived[pk] = 1
                  /\ reports[pk].rid = <<RID_PREFIX, "_", reports[pk].page[3], "_", pk>>)
    /\ [][\A pk \in DOMAIN reports :
            reports[pk].rid # None => reports'[pk].rid = reports[pk].rid]_vars

\* a Report with its rid has been saved again by a change request that decided it
C4_Witness ==
    \E pk \in DOMAIN reports :
        /\ reports[pk].rid # None
        /\ Decided(reports[pk])
        /\ edits >= 2
        /\ \A t \in Threads : pc[t] = "idle"

\* C7: every notification belongs to a save that stored a decided status and
\* goes to the reporter of its Report; two interleaved change requests that
\* both read the Report as pending both send one (C7_Witness).
C7_NotificationPerDecidingSave ==
    \A i \in DOMAIN sent :
        /\ sent[i].status # STATUS_IS_PENDING
        /\ sent[i].to = reports[sent[i].report].reporter

\* two notifications were sent for one Report, by two requests that had both
\* read it as pending
C7_Witness ==
    \E i, j \in DOMAIN sent :
        /\ i # j
        /\ sent[i].report = sent[j].report
        /\ sent[i].observed = STATUS_IS_PENDING
        /\ sent[j].observed = STATUS_IS_PENDING

\* C10: with requests for different reports interleaved, the first change of
\* a Report is notified, and a decided Report is not notified again.
C10_DecisionDependsOnReportOnly ==
    \A pk \in DOMAIN reports :
        /\ NotificationsIn(sent, pk) <= 1
        /\ \A i \in DOMAIN sent : sent[i].observed = STATUS_IS_PENDING
        /\ (Decided(reports[pk]) /\ \A t \in Threads : loc[t].target # pk)
              => NotificationsIn(sent, pk) >= 1

(***************************************************************************)
(* Language switch (laumproject/urls.py); strings are character sequences  *)
(***************************************************************************)
Chars == {"/", "f", "a", "e"}

\* the codes of settings.LANGUAGES
lang_codes == {<<"f", "a">>, <<"e", "n">>}

LanguageInputs == lang_codes \cup {<<"d", "e">>, <<>>}

Paths == UNION {[1 .. n -> Chars] : n \in 0 .. MaxPathLen}

\* str.split('/')
RECURSIVE split(_)
split(string) ==
    IF string = <<>> THEN << <<>> >>
    ELSE LET rest == split(Tail(string)) IN
         IF Head(string) = "/" THEN << <<>> >> \o rest
         ELSE << <<Head(string)>> \o Head(rest) >> \o Tail(rest)

\* '/'.join(parts)
RECURSIVE join(_)
join(parts) ==
    IF Len(parts) = 0 THEN <<>>
    ELSE IF Len(parts) = 1 THEN parts[1]
    ELSE parts[1] \o <<"/">> \o join(Tail(parts))

Raised(exception) == [outcome |-> "raised", exception |-> exception, value |-> <<>>]
ReturnedPath(value) == [outcome |-> "returned", exception |-> "", value |-> value]

\* a switch that does not check the language code
switch_lang_code_any_language(path_, language) ==
    IF path_ = <<>> THEN Raised("Exception")
    ELSE IF path_[1] # "/" THEN Raised("Exception")
    ELSE LET parts == split(path_) IN
         IF Len(parts) < 2 THEN Raised("IndexError")
         ELSE IF parts[2] \in lang_codes
              THEN ReturnedPath(join([parts EXCEPT ![2] = language]))
              ELSE ReturnedPath(join([parts EXCEPT ![1] = <<"/">> \o language]))

\* switch_lang_code(path_, language); parts[1] of the code is parts[2] here
switch_lang_code(path_, language) ==
    IF path_ = <<>> THEN Raised("Exception")
    ELSE IF path_[1] # "/" THEN Raised("Exception")
    ELSE IF language \notin lang_codes THEN Raised("Exception")
    ELSE LET parts == split(path_) IN
         IF Len(parts) < 2 THEN Raised("IndexError")
         ELSE IF parts[2] \in lang_codes
              THEN ReturnedPath(join([parts EXCEPT ![2] = language]))
              ELSE ReturnedPath(join([parts EXCEPT ![1] = <<"/">> \o language]))

\* the call runs to its end
SwitchLanguage ==
    /\ call.state = "called"
    /\ LET r == switch_lang_code(call.path_, call.language) IN
       call' = [call EXCEPT !.state = "done", !.outcome = r.outcome, !.value = r.value]
    /\ UNCHANGED <<groups, pages, reports, sent, readonly_fields, pc, loc, gid_log,
                   pid_log, derived, edits>>

InitLanguage ==
    /\ groups = <<>>
    /\ pages = <<>>
    /\ reports = <<>>
    /\ sent = <<>>
    /\ readonly_fields = {}
    /\ pc = [t \in Threads |-> "idle"]
    /\ loc = [t \in Threads |-> Locals0]
    /\ gid_log = <<>>
    /\ pid_log = <<>>
    /\ derived = <<>>
    /\ edits = 0
    /\ \E p \in Paths, l \in LanguageInputs :
          call = [NoCall EXCEPT !.path_ = p, !.language = l, !.state = "called"]

NextLanguage == SwitchLanguage

\* one call of switch_lang_code on any path and language
SpecLanguage == InitLanguage /\ [][NextLanguage]_vars

InvalidSwitchInput(path_, language) ==
    \/ Len(path_) = 0
    \/ path_[1] # "/"
    \/ language \notin lang_codes

\* C6: switch_lang_code raises and returns no path exactly when the path is
\* empty, does not start with "/", or the language is no configured code.
C6_SwitchRaisesOnInvalidInput ==
    call.state = "done" =>
        IF InvalidSwitchInput(call.path_, call.language)
        THEN call.outcome = "raised" /\ call.value = <<>>
        ELSE call.outcome = "returned"

\* a path whose first segment is a language code was switched to another code
C6_Witness ==
    /\ call.state = "done"
    /\ call.outcome = "returned"
    /\ call.path_ = <<"/", "f", "a", "/">>
    /\ call.language = <<"e", "n">>
    /\ call.value = <<"/", "e", "n", "/">>

====
